---------------------------- MODULE Spec2Model ----------------------------
(***************************************************************************)
(* A model of cmd/mybittorrent/main.go: the bencode codec                  *)
(* (decodeBencodeData / encodeData and their helpers), the peer session of *)
(* downloadPiece (tracker announce, handshake, bitfield, interested,       *)
(* unchoke, request loop, SHA-1 check) and the download command's loop.    *)
(*                                                                         *)
(* Go strings and byte slices are sequences of bytes (0..255); Go's        *)
(* 0-based index k is the sequence's index k+1.  A Go run-time panic       *)
(* (index or slice out of range, an explicit panic) ends the process.      *)
(***************************************************************************)
EXTENDS Integers, Sequences, FiniteSets, TLC

(***************************************************************************)
(* Bytes                                                                   *)
(***************************************************************************)

\* The byte of an ASCII character the source names in a literal.
Ord(c) ==
  CASE c = "+" -> 43 [] c = "-" -> 45 [] c = ":" -> 58
    [] c = "0" -> 48 [] c = "1" -> 49 [] c = "2" -> 50 [] c = "3" -> 51
    [] c = "4" -> 52 [] c = "5" -> 53 [] c = "6" -> 54 [] c = "7" -> 55
    [] c = "8" -> 56 [] c = "9" -> 57
    [] c = " " -> 32 [] c = "B" -> 66 [] c = "T" -> 84 [] c = "u" -> 117
    [] c = "a" -> 97 [] c = "b" -> 98 [] c = "c" -> 99 [] c = "d" -> 100
    [] c = "e" -> 101 [] c = "f" -> 102 [] c = "g" -> 103 [] c = "h" -> 104 [] c = "i" -> 105
    [] c = "l" -> 108 [] c = "m" -> 109 [] c = "n" -> 110 [] c = "o" -> 111
    [] c = "p" -> 112 [] c = "r" -> 114 [] c = "s" -> 115 [] c = "t" -> 116
    [] c = "x" -> 120

\* A string literal, written as a tuple of its characters.
Str(cs) == [k \in DOMAIN cs |-> Ord(cs[k])]

Min(a, b) == IF a < b THEN a ELSE b

\* Go's s[lo:hi] (0-based, hi exclusive); the caller has checked the range.
Slice(s, lo, hi) == SubSeq(s, lo + 1, hi)

\* Go's s[lo:]
SliceFrom(s, lo) == SubSeq(s, lo + 1, Len(s))

\* unicode.IsDigit on a byte: the decimal digits are the only Nd below 256.
IsDigit(b) == b \in 48..57

(***************************************************************************)
(* strconv.Atoi and fmt's %d                                               *)
(***************************************************************************)

RECURSIVE DigitsValue(_)
DigitsValue(s) ==
  IF s = <<>> THEN 0
  ELSE 10 * DigitsValue(SubSeq(s, 1, Len(s) - 1)) + (s[Len(s)] - 48)

\* strconv.Atoi: an optional sign, then one or more decimal digits.
Atoi(s) ==
  IF s = <<>> THEN [ok |-> FALSE, val |-> 0]
  ELSE LET signed == s[1] \in {43, 45}
           body   == IF signed THEN Tail(s) ELSE s
       IN  IF body = <<>> \/ \E k \in DOMAIN body : ~IsDigit(body[k])
           THEN [ok |-> FALSE, val |-> 0]
           ELSE [ok |-> TRUE,
                 val |-> IF s[1] = 45 THEN 0 - DigitsValue(body)
                         ELSE DigitsValue(body)]

RECURSIVE NatToStr(_)
NatToStr(n) ==
  IF n < 10 THEN <<48 + n>> ELSE Append(NatToStr(n \div 10), 48 + (n % 10))

\* fmt.Sprintf("%d", n)
IntToStr(n) == IF n < 0 THEN <<45>> \o NatToStr(0 - n) ELSE NatToStr(n)

(***************************************************************************)
(* Bencode values (Go: string, int, []interface{}, map[string]interface{}) *)
(***************************************************************************)

\* A list is its sequence of elements: Go's nil slice (`var elements`, never
\* appended to) and its empty slice (emptyList) are both the empty list.
BStr(s)  == [t |-> "s", v |-> s]
BInt(n)  == [t |-> "i", v |-> n]
BList(l) == [t |-> "l", v |-> l]
BDict(f) == [t |-> "d", v |-> f]

\* make(map[string]interface{})
EmptyMap == [k \in {} |-> 0]

\* The result triple (value, consumed length, error) of the decoders.  err is
\* "nil", "error" (a returned Go error), "panic" (a run-time panic: the
\* process aborts) or "loop" (the element loop repeats one iteration forever).
Res(val, n, err) == [val |-> val, n |-> n, err |-> err]

\* The index of the first ':' of s scanning from index `from` (0-based), or
\* -1 where the scan runs off the end of s (Go panics: index out of range).
RECURSIVE ScanFor(_, _, _)
ScanFor(s, from, b) ==
  IF from >= Len(s) THEN -1
  ELSE IF s[from + 1] = b THEN from
  ELSE ScanFor(s, from + 1, b)

_decodeString(bencodedString) ==
  LET firstColonIndex == ScanFor(bencodedString, 0, 58)
  IN  IF firstColonIndex < 0 THEN Res(BStr(<<>>), 0, "panic")
      ELSE
        LET lengthStr  == Slice(bencodedString, 0, firstColonIndex)
            conv       == Atoi(lengthStr)
            length     == conv.val
            partLength == length + firstColonIndex + 1
        IN  IF ~conv.ok THEN Res(BStr(<<>>), 0, "error")
            ELSE IF length < 0 \/ firstColonIndex + 1 + length > Len(bencodedString)
            THEN Res(BStr(<<>>), 0, "panic")
            ELSE Res(BStr(Slice(bencodedString, firstColonIndex + 1,
                                firstColonIndex + 1 + length)),
                     partLength, "nil")

_decodeInteger(bencodedNumber) ==
  LET numberEnd == ScanFor(bencodedNumber, 1, 101)
  IN  IF numberEnd < 0 THEN Res(BInt(0), 0, "panic")
      ELSE
        LET conv == Atoi(Slice(bencodedNumber, 1, numberEnd))
        IN  IF ~conv.ok THEN Res(BInt(0), 0, "error")
            ELSE Res(BInt(conv.val), numberEnd + 1, "nil")

RECURSIVE decodeBencodeData(_)
RECURSIVE ListLoop(_, _, _)
RECURSIVE DictLoop(_, _, _)

\* The for loop of _decodeList, entered with the cursor lastElementEndIndex
\* and the elements appended so far.
ListLoop(bencodedList, lastElementEndIndex, elements) ==
  IF lastElementEndIndex + 1 >= Len(bencodedList)
  THEN Res(BList(<<>>), 0, "panic")
  ELSE IF bencodedList[lastElementEndIndex + 2] = 101
  THEN Res(BList(elements), lastElementEndIndex + 2, "nil")
  ELSE
    LET r == decodeBencodeData(SliceFrom(bencodedList, lastElementEndIndex + 1))
    IN  IF r.err = "error" THEN Res(BList(<<>>), 0, "error")
        ELSE IF r.err # "nil" THEN Res(BList(<<>>), 0, r.err)
        ELSE IF r.n = 0 THEN Res(BList(<<>>), 0, "loop")
        ELSE ListLoop(bencodedList, lastElementEndIndex + r.n,
                      Append(elements, r.val))

\* A plausible slip: the closing `e` left out of the consumed count.
DecodeListCountShort(bencodedList) ==
  IF bencodedList = <<108, 101>> THEN Res(BList(<<>>), 0, "nil")
  ELSE LET r == ListLoop(bencodedList, 0, <<>>)
       IN  IF r.err = "nil" THEN Res(r.val, r.n - 1, "nil") ELSE r

_decodeList(bencodedList) ==
  IF bencodedList = <<108, 101>> THEN Res(BList(<<>>), 0, "nil")
  ELSE ListLoop(bencodedList, 0, <<>>)

\* The for loop of _decodeDict; emptyDict and dict are one map, so an error
\* return carries the entries stored so far.
DictLoop(bencodedDict, lastElementEndIndex, dict) ==
  IF lastElementEndIndex + 1 >= Len(bencodedDict)
  THEN Res(BDict(dict), 0, "panic")
  ELSE IF bencodedDict[lastElementEndIndex + 2] = 101
  THEN Res(BDict(dict), lastElementEndIndex + 2, "nil")
  ELSE
    LET k == _decodeString(SliceFrom(bencodedDict, lastElementEndIndex + 1))
    IN  IF k.err # "nil" THEN Res(BDict(dict), 0, k.err)
        ELSE
          LET r == decodeBencodeData(
                     SliceFrom(bencodedDict, lastElementEndIndex + k.n + 1))
          IN  IF r.err # "nil" THEN Res(BDict(dict), 0, r.err)
              ELSE DictLoop(bencodedDict, lastElementEndIndex + k.n + r.n,
                            (k.val.v :> r.val) @@ dict)

_decodeDict(bencodedDict) ==
  IF bencodedDict = <<100, 101>> THEN Res(BDict(EmptyMap), 0, "nil")
  ELSE DictLoop(bencodedDict, 0, EmptyMap)

decodeBencodeData(bencodedString) ==
  IF bencodedString = <<>> THEN Res(BStr(<<>>), 0, "panic")
  ELSE IF IsDigit(bencodedString[1]) THEN _decodeString(bencodedString)
  ELSE IF bencodedString[1] = 105 THEN _decodeInteger(bencodedString)
  ELSE IF bencodedString[1] = 108 THEN _decodeList(bencodedString)
  ELSE IF bencodedString[1] = 100 THEN _decodeDict(bencodedString)
  ELSE Res(BStr(<<>>), 0, "error")

(***************************************************************************)
(* The encoder                                                             *)
(***************************************************************************)

\* Go's string comparison a < b: byte-lexicographic.
RECURSIVE StrLess(_, _)
StrLess(a, b) ==
  IF a = <<>> THEN b # <<>>
  ELSE IF b = <<>> THEN FALSE
  ELSE IF a[1] # b[1] THEN a[1] < b[1]
  ELSE StrLess(Tail(a), Tail(b))

RECURSIVE InsertSorted(_, _)
InsertSorted(sorted, key) ==
  IF sorted = <<>> THEN <<key>>
  ELSE IF StrLess(key, sorted[1]) THEN <<key>> \o sorted
  ELSE <<sorted[1]>> \o InsertSorted(Tail(sorted), key)

\* A plausible slip: the keys are left in the map's iteration order.
SortStringsSkipped(keys) == keys

\* sort.Strings(keys)
RECURSIVE SortStrings(_)
SortStrings(keys) ==
  IF keys = <<>> THEN <<>>
  ELSE InsertSorted(SortStrings(Tail(keys)), keys[1])

\* `for key := range dictToEncode`: Go visits a map's keys in an unspecified
\* order.  mapOrder picks the order: its digits in the factorial number
\* system say which of the keys left is visited next.
RECURSIVE RangeKeys(_, _)
RangeKeys(keySet, mapOrder) ==
  IF keySet = {} THEN <<>>
  ELSE
    LET n    == Cardinality(keySet)
        rank == mapOrder % n
        key  == CHOOSE k \in keySet :
                  Cardinality({j \in keySet : StrLess(j, k)}) = rank
    IN  <<key>> \o RangeKeys(keySet \ {key}, mapOrder \div n)

\* The pair (string, error) encodeData returns; err is "nil", "error" or
\* "panic" (the panic(err) of _encodeList and _encodeDict).
Enc(s, err) == [s |-> s, err |-> err]

_encodeString(stringToEncode) ==
  IntToStr(Len(stringToEncode)) \o <<58>> \o stringToEncode

\* A plausible slip: the number written without its sign.
EncodeIntegerUnsigned(numberToEncode) ==
  <<105>> \o NatToStr(IF numberToEncode < 0 THEN 0 - numberToEncode
                      ELSE numberToEncode) \o <<101>>

_encodeInteger(numberToEncode) ==
  <<105>> \o IntToStr(numberToEncode) \o <<101>>

RECURSIVE encodeData(_, _)
RECURSIVE EncodeElements(_, _, _)
RECURSIVE EncodeEntries(_, _, _, _)

\* The loop of _encodeList over the values left, listString built so far.
EncodeElements(values, mapOrder, listString) ==
  IF values = <<>> THEN Enc(listString \o <<101>>, "nil")
  ELSE
    LET e == encodeData(values[1], mapOrder)
    IN  IF e.err # "nil" THEN Enc(<<>>, "panic")
        ELSE EncodeElements(Tail(values), mapOrder, listString \o e.s)

_encodeList(listToEncode, mapOrder) ==
  EncodeElements(listToEncode, mapOrder, <<108>>)

\* The second loop of _encodeDict over the sorted keys left.
EncodeEntries(dictToEncode, keys, mapOrder, dictString) ==
  IF keys = <<>> THEN Enc(dictString \o <<101>>, "nil")
  ELSE IF keys[1] \notin DOMAIN dictToEncode THEN Enc(<<>>, "panic")
  ELSE
    LET e == encodeData(dictToEncode[keys[1]], mapOrder)
    IN  IF e.err # "nil" THEN Enc(<<>>, "panic")
        ELSE EncodeEntries(dictToEncode, Tail(keys), mapOrder,
                           dictString \o _encodeString(keys[1]) \o e.s)

_encodeDict(dictToEncode, mapOrder) ==
  EncodeEntries(dictToEncode,
                SortStrings(RangeKeys(DOMAIN dictToEncode, mapOrder)),
                mapOrder, <<100>>)

encodeData(itemToEncode, mapOrder) ==
  CASE itemToEncode.t = "s" -> Enc(_encodeString(itemToEncode.v), "nil")
    [] itemToEncode.t = "i" -> Enc(_encodeInteger(itemToEncode.v), "nil")
    [] itemToEncode.t = "l" -> _encodeList(itemToEncode.v, mapOrder)
    [] itemToEncode.t = "d" -> _encodeDict(itemToEncode.v, mapOrder)
    [] OTHER -> Enc(<<>>, "error")

(***************************************************************************)
(* Inputs of the codec checks                                              *)
(***************************************************************************)

\* Bounds of the values and inputs the codec is applied to.
MaxStrLen == 1
MaxElems  == 2
MaxRawLen == 4

SeqsUpTo(S, n) == UNION {[1..k -> S] : k \in 0..n}

RECURSIVE Factorial(_)
Factorial(n) == IF n <= 1 THEN 1 ELSE n * Factorial(n - 1)

\* Byte-string contents: a letter and the bytes the decoder treats specially.
StrBytes == {Ord("a"), Ord(":")}
IntSamples == {0 - 12, 0, 7}
Scalars ==
  {BStr(s) : s \in SeqsUpTo(StrBytes, MaxStrLen)} \cup {BInt(n) : n \in IntSamples}

DictKeys == {Str(<<"a">>), Str(<<"a", "a">>), Str(<<"b">>)}

ListsOf(S) == {BList(l) : l \in SeqsUpTo(S, MaxElems)}
DictsOf(S) ==
  {BDict(f) : f \in UNION {[K -> S] :
                 K \in {K \in SUBSET DictKeys : Cardinality(K) <= MaxElems}}}

\* Containers used as the elements of nested values.
Nested ==
  { BList(<<>>), BDict(EmptyMap), BList(<<BInt(0 - 12)>>),
    BDict(Str(<<"b">>) :> BStr(Str(<<"a">>))),
    BDict(Str(<<"b">>) :> BInt(7) @@ Str(<<"a">>) :> BInt(0)), BInt(7) }

Values ==
  Scalars \cup ListsOf(Scalars) \cup DictsOf(Scalars)
          \cup ListsOf(Nested) \cup DictsOf(Nested)

\* What follows the encoded value in the buffer: nothing, the end of an
\* enclosing container, a sibling element.
Suffixes == {<<>>, Str(<<"e">>), Str(<<"1", ":", "a">>)}

MapOrders == 0..(Factorial(MaxElems) - 1)

\* Arbitrary command-line input of the decode command.
RawBytes ==
  {Ord("1"), Ord("2"), Ord(":"), Ord("i"), Ord("l"), Ord("d"), Ord("e"),
   Ord("-"), Ord("x")}
RawInputs == SeqsUpTo(RawBytes, MaxRawLen)

\* A list of two byte-strings, as the decode command is given it.
SpamEggs ==
  Str(<<"l","4",":","s","p","a","m","4",":","e","g","g","s","e">>)

(***************************************************************************)
(* SHA-1, big-endian words, copy                                           *)
(***************************************************************************)

\* sha1.Size, the 20 of `len(pieces) / 20` and of pieces[index*20 : ...].
DigestSize == 20

\* crypto/sha1's Sum.  The compression function is not reproduced: the digest
\* is a 20-byte function of the whole buffer (every byte, its position and
\* the length enter it), which is all the program relies on.
RECURSIVE Sha1Mix(_, _, _)
Sha1Mix(data, lo, hi) ==
  IF lo > hi THEN 0
  ELSE IF lo = hi THEN lo * (data[lo] + 1)
  ELSE Sha1Mix(data, lo, (lo + hi) \div 2)
       + Sha1Mix(data, (lo + hi) \div 2 + 1, hi)

sha1Sum(data) ==
  LET h == (Sha1Mix(data, 1, Len(data)) + 7919 * Len(data)) % 65521
  IN  [k \in 1..DigestSize |-> ((h \div k) + 13 * k) % 256]

\* binary.Write(buffer, binary.BigEndian, uint32(n))
be32(n) == <<(n \div 16777216) % 256, (n \div 65536) % 256, (n \div 256) % 256, n % 256>>

\* binary.BigEndian.Uint32 of four bytes
Uint32(b) == ((b[1] * 256 + b[2]) * 256 + b[3]) * 256 + b[4]

Zeros(n) == [k \in 1..n |-> 0]

\* copy(dst[off:], src): min(len(dst) - off, len(src)) bytes are copied.
CopyAt(dst, off, src) ==
  [k \in 1..Len(dst) |->
     IF k > off /\ k - off <= Len(src) THEN src[k - off] ELSE dst[k]]

RECURSIVE Concat(_)
Concat(seqs) == IF seqs = <<>> THEN <<>> ELSE seqs[1] \o Concat(Tail(seqs))

(***************************************************************************)
(* The torrent under download                                              *)
(***************************************************************************)

\* PIECE_BLOCK_MAX_SIZE is 1 << 14 in the source (main.go:18).  The model
\* keeps every computation made with it and runs them on a small block, a
\* small piece and a small file, so that buffers stay explicit sequences.
PIECE_BLOCK_MAX_SIZE == 2
WholePieceLength == 3
FileLength == 5

FileContents == [k \in 1..FileLength |-> 16 + k]

TruePiecesAmount == (FileLength + WholePieceLength - 1) \div WholePieceLength

TruePiece(index) ==
  SubSeq(FileContents, index * WholePieceLength + 1,
         Min(FileLength, (index + 1) * WholePieceLength))

TorrentValue ==
  BDict(
    Str(<<"a","n","n","o","u","n","c","e">>) :> BStr(Str(<<"h","t","t","p">>))
    @@ Str(<<"i","n","f","o">>) :>
         BDict(
           Str(<<"l","e","n","g","t","h">>) :> BInt(FileLength)
           @@ Str(<<"n","a","m","e">>) :> BStr(Str(<<"x">>))
           @@ Str(<<"p","i","e","c","e"," ","l","e","n","g","t","h">>)
                :> BInt(WholePieceLength)
           @@ Str(<<"p","i","e","c","e","s">>) :>
                BStr(Concat([n \in 1..TruePiecesAmount |-> sha1Sum(TruePiece(n - 1))]))))

\* The bytes of the .torrent file (its keys in the order a writer chose).
TorrentFileBytes == encodeData(TorrentValue, 0).s

\* getDecodedFile
getDecodedFile == _decodeDict(TorrentFileBytes).val.v

decodedTorrentFile == getDecodedFile
torrentFileInfo == decodedTorrentFile[Str(<<"i","n","f","o">>)].v
fileLength == torrentFileInfo[Str(<<"l","e","n","g","t","h">>)].v
wholePieceLength ==
  torrentFileInfo[Str(<<"p","i","e","c","e"," ","l","e","n","g","t","h">>)].v
pieces == torrentFileInfo[Str(<<"p","i","e","c","e","s">>)].v
piecesAmount == Len(pieces) \div DigestSize

\* encodedInfo := _encodeDict(torrentFileInfo); the map's order does not
\* reach the output (the keys are sorted), so one order is taken.
encodedInfo == _encodeDict(torrentFileInfo, 0).s

pieceHashFromFile(index) ==
  Slice(pieces, index * DigestSize, (index + 1) * DigestSize)

\* A plausible slip: the comparison of the two digests left out.
ChecksumSkipped(buffer, index) == TRUE

\* bytes.Equal(pieceSumFromPeer[:], pieceHashFromFile)
ChecksumOk(buffer, index) == sha1Sum(buffer) = pieceHashFromFile(index)

\* The piece's logical length (lines 298-302).
PieceLengthOf(index) ==
  IF index = piecesAmount - 1
  THEN fileLength - wholePieceLength * (piecesAmount - 1)
  ELSE wholePieceLength

(***************************************************************************)
(* Peer-wire bytes                                                         *)
(***************************************************************************)

pstr == Str(<<"B","i","t","T","o","r","r","e","n","t"," ",
              "p","r","o","t","o","c","o","l">>)

\* The info_hash of the tracker query (line 210).
info_hash == sha1Sum(encodedInfo)

\* A plausible slip: the reserved bytes left out of the handshake.
HandshakeNoReserved ==
  <<19>> \o pstr \o sha1Sum(encodedInfo)
         \o Str(<<"0","0","1","1","2","2","3","3","4","4",
                  "5","5","6","6","7","7","8","8","9","9">>)

\* The handshake the client writes (lines 252-258).
handshake ==
  <<19>> \o pstr \o Zeros(8) \o sha1Sum(encodedInfo)
         \o Str(<<"0","0","1","1","2","2","3","3","4","4",
                  "5","5","6","6","7","7","8","8","9","9">>)

\* buf := make([]byte, 1<<15)
BufSize == 32768

\* messageCode := buf[4]
MessageCodeIndex == 4

\* A peer-wire frame [u32 length][u8 id][payload].
Frame(id, payload) == be32(1 + Len(payload)) \o <<id>> \o payload
KeepAlive == be32(0)
FrameId(frame) == IF Len(frame) > 4 THEN frame[5] ELSE -1

\* The Interested message of lines 284-288 and the Request of lines 314-330.
InterestedBytes == be32(1) \o <<2>>
RequestBytes(index, begin, length) ==
  be32(13) \o <<6>> \o be32(index) \o be32(begin) \o be32(length)

(***************************************************************************)
(* State                                                                   *)
(***************************************************************************)

VARIABLES
  \* the codec commands
  cpc,            \* position: "off", "toEncode", "encoded", "toDecode", "decoded"
  item,           \* itemToEncode
  mapOrder,       \* the order in which range visits map keys
  suffix,         \* the bytes that follow the encoded value in the buffer
  bencodedValue,  \* os.Args[2] of the decode command
  encoded,        \* what encodeData returned
  decoded,        \* what decodeBencodeData returned
  \* the download command and downloadPiece
  pc,             \* position of the process
  pieceIndex,     \* main's i, downloadPiece's pieceIndex
  fileBytes,      \* main's output buffer
  ret,            \* what the last downloadPiece call returned
  peers,          \* the tracker's compact peer list (dead after line 244)
  address,        \* the peer address dialled
  message,        \* the handshake reply as read (buf[:bytesRead])
  buf,            \* the first MessageCodeIndex+1 bytes of the 1<<15 buffer
  sent,           \* the peer-wire messages written to conn, in order
  piece,          \* the piece buffer
  pieceLength,
  i,              \* the request loop's offset
  messageLength,
  messageId,
  \* the connection and the peer
  conns,          \* the number of connections dialled and not yet closed
  stream,         \* bytes received from the peer and not yet read
  closed,         \* the peer has closed the connection
  partial,        \* the rest of the peer's last write, still in the network
  peerHandshake,  \* the handshake reply the peer wrote (<<>>: none yet)
  peerIds,        \* the ids of the first two frames the peer wrote after it
  framesWritten,  \* the number of frames the peer wrote after it
  backlog,        \* the peer's writes not yet read in full: what is left
                  \* of each to read, and its length
  verified        \* the piece indexes whose download passed the SHA-1 check

codecVars == <<cpc, item, mapOrder, suffix, bencodedValue, encoded, decoded>>
mainVars  == <<pieceIndex, fileBytes, verified>>
callVars  == <<peers, address, message, buf, sent, piece, pieceLength, i,
               messageLength, messageId>>
connVars  == <<conns, stream, closed, partial, peerHandshake, peerIds, framesWritten,
               backlog>>
peerLog   == <<peerHandshake, peerIds, framesWritten>>
vars == <<codecVars, pc, ret, mainVars, callVars, connVars>>

NoEnc == Enc(<<>>, "none")
NoRes == Res(BInt(0), 0, "none")
NoRet == [piece |-> <<>>, pieceLength |-> 0]

CodecOff ==
  /\ cpc = "off" /\ item = BInt(0) /\ mapOrder = 0 /\ suffix = <<>>
  /\ bencodedValue = <<>> /\ encoded = NoEnc /\ decoded = NoRes

\* The download command up to its loop (lines 586-596).
Fresh ==
  /\ pieceIndex = 0 /\ fileBytes = Zeros(fileLength)
  /\ verified = {} /\ ret = NoRet
  /\ peers = <<>> /\ conns = 0
  /\ address = <<>> /\ message = <<>> /\ buf = Zeros(MessageCodeIndex + 1)
  /\ sent = <<>> /\ piece = <<>> /\ pieceLength = 0 /\ i = 0
  /\ messageLength = 0 /\ messageId = 0
  /\ stream = <<>> /\ closed = FALSE /\ partial = <<>>
  /\ peerHandshake = <<>> /\ peerIds = <<>> /\ framesWritten = 0
  /\ backlog = <<>>

Init == CodecOff /\ pc = "main" /\ Fresh

(***************************************************************************)
(* The peer and the network                                                *)
(***************************************************************************)

\* The number of frames the peer writes on one connection, and the number
\* of its writes that may wait unread at the client.
MaxFrames == 4
MaxAhead == 2

\* The backlog after the client took n bytes from the connection.
RECURSIVE Consume(_, _)
Consume(log, n) ==
  IF n = 0 \/ log = <<>> THEN log
  ELSE IF n >= log[1].left THEN Consume(Tail(log), n - log[1].left)
  ELSE <<[left |-> log[1].left - n, total |-> log[1].total]>> \o Tail(log)

ConnOpen == pc \in {"hsRead", "bfRead", "ucRead", "loop", "rdLen", "rdId", "rdPayload"}

\* The peer id is the peer's to choose.
RemotePeerId == [k \in 1..20 |-> 5]

\* Handshake replies: a correct one, one with another protocol identifier,
\* one that stops before the peer id.
PeerHandshakes ==
  { <<19>> \o pstr \o Zeros(8) \o sha1Sum(encodedInfo) \o RemotePeerId,
    <<19>> \o Str(<<"B","i","t","T","o","r","r","e","n","t"," ",
                    "p","r","o","t","o","c","o","x">>)
           \o Zeros(8) \o sha1Sum(encodedInfo) \o RemotePeerId,
    <<19>> \o pstr \o Zeros(8) \o sha1Sum(encodedInfo) }

PieceFrame(index, begin, block) == Frame(7, be32(index) \o be32(begin) \o block)

\* The answer of an honest peer to the Request for the block at `begin`.
HonestBlock(index, begin) ==
  PieceFrame(index, begin,
             SubSeq(TruePiece(index), begin + 1,
                    Min(Len(TruePiece(index)), begin + PIECE_BLOCK_MAX_SIZE)))

BlockOffsets(index) ==
  {b \in 0..(Len(TruePiece(index)) - 1) : b % PIECE_BLOCK_MAX_SIZE = 0}

\* The frames the peer chooses from: keep-alive, bitfield, unchoke, have,
\* the honest blocks, a block of wrong bytes, a piece message cut after its
\* index, and a cancel (id 8: index, begin, length) for a 16 KiB block.
PeerMenu ==
  { KeepAlive, Frame(5, <<255>>), Frame(1, <<>>), Frame(4, be32(1)),
    PieceFrame(0, 0, <<9, 9>>), Frame(7, be32(0)),
    Frame(8, be32(0) \o be32(0) \o be32(16384)) }
  \cup UNION {{HonestBlock(x, b) : b \in BlockOffsets(x)} :
                 x \in 0..(TruePiecesAmount - 1)}

\* Where the network may split one write of the peer in two deliveries (every
\* offset is possible on a socket; the model takes these).
CutPoints == {4, 60}
Cuts(bytes) == {Len(bytes)} \cup {c \in CutPoints : c < Len(bytes)}

(***************************************************************************)
(* The download command (lines 585-602)                                    *)
(***************************************************************************)

\* for i := 0; i < piecesAmount; i++ { piece, pieceLength := downloadPiece(...)
CallDownloadPiece ==
  /\ pc = "main" /\ pieceIndex < piecesAmount
  /\ pc' = "tracker"
  /\ UNCHANGED <<codecVars, ret, mainVars, callVars, connVars>>

\* A plausible slip: every piece copied to the start of the buffer.
PieceOffsetZero(index) == 0

\* i*wholePieceLength (line 599)
PieceOffset(index) == index * wholePieceLength

\* copy(fileBytes[i*wholePieceLength : i*wholePieceLength+pieceLength], piece); i++
StorePiece ==
  /\ pc = "returned"
  /\ LET lo == PieceOffset(pieceIndex)
         hi == lo + ret.pieceLength
     IN  IF hi > Len(fileBytes)
         THEN pc' = "panic" /\ UNCHANGED <<fileBytes, pieceIndex>>
         ELSE /\ fileBytes' =
                   [k \in 1..Len(fileBytes) |->
                      IF k > lo /\ k <= hi /\ k - lo <= Len(ret.piece)
                      THEN ret.piece[k - lo] ELSE fileBytes[k]]
              /\ pieceIndex' = pieceIndex + 1
              /\ pc' = "main"
  /\ UNCHANGED <<codecVars, ret, verified, callVars, connVars>>

\* os.WriteFile(outputFilePath, fileBytes, ...); fmt.Printf("Downloaded ...")
WriteFile ==
  /\ pc = "main" /\ pieceIndex >= piecesAmount
  /\ pc' = "done"
  /\ UNCHANGED <<codecVars, ret, mainVars, callVars, connVars>>

(***************************************************************************)
(* downloadPiece (lines 184-374)                                           *)
(***************************************************************************)

\* A plausible slip: the call ends and conn is left open (no conn.Close()).
CallEndsConnLeftOpen ==
  /\ peers' = <<>>
  /\ conns' = conns
  /\ address' = <<>> /\ message' = <<>> /\ buf' = Zeros(MessageCodeIndex + 1)
  /\ sent' = <<>> /\ piece' = <<>> /\ pieceLength' = 0 /\ i' = 0
  /\ messageLength' = 0 /\ messageId' = 0
  /\ stream' = <<>> /\ closed' = FALSE /\ partial' = <<>>
  /\ peerHandshake' = <<>> /\ peerIds' = <<>> /\ framesWritten' = 0
  /\ backlog' = <<>>

\* The call ends: its locals are gone and conn is closed.
CallEnds ==
  /\ peers' = <<>>
  /\ conns' = IF ConnOpen THEN conns - 1 ELSE conns
  /\ address' = <<>> /\ message' = <<>> /\ buf' = Zeros(MessageCodeIndex + 1)
  /\ sent' = <<>> /\ piece' = <<>> /\ pieceLength' = 0 /\ i' = 0
  /\ messageLength' = 0 /\ messageId' = 0
  /\ stream' = <<>> /\ closed' = FALSE /\ partial' = <<>>
  /\ peerHandshake' = <<>> /\ peerIds' = <<>> /\ framesWritten' = 0
  /\ backlog' = <<>>

\* `return nil, 0`; the deferred conn.Close() runs.
ReturnNil == pc' = "returned" /\ ret' = NoRet /\ CallEnds

\* A panic: the process ends.
Panic == pc' = "panic" /\ ret' = ret /\ CallEnds

\* Tracker replies the model draws from: a compact list of one peer, one
\* peer and the first byte of a second, a dictionary without peers, a list
\* cut inside its first record.
TrackerBodies ==
  { Str(<<"d","5",":","p","e","e","r","s","6",":">>) \o <<10, 0, 0, 1, 26, 225>>
      \o Str(<<"e">>),
    Str(<<"d","5",":","p","e","e","r","s","7",":">>) \o <<10, 0, 0, 1, 26, 225, 10>>
      \o Str(<<"e">>),
    Str(<<"d","e">>),
    Str(<<"d","5",":","p","e","e","r","s","5",":">>) \o <<10, 0, 0, 1, 26>>
      \o Str(<<"e">>) }

\* fmt.Sprintf("%d.%d.%d.%d:%d", peers[0], peers[1], peers[2], peers[3],
\*             int(peers[4])*256+int(peers[5]))   (line 244)
FirstPeerAddress(peerList) ==
  <<peerList[1], peerList[2], peerList[3], peerList[4],
    peerList[5] * 256 + peerList[6]>>

\* client.Do or io.ReadAll fails (lines 220-231).
AnnounceFails ==
  /\ pc = "tracker"
  /\ ReturnNil
  /\ UNCHANGED <<codecVars, mainVars>>

\* The tracker answers; the body is decoded, the first peer dialled and the
\* handshake written (lines 233-263).
AnnounceReplies ==
  /\ pc = "tracker"
  /\ \E responseBody \in TrackerBodies, dialed \in BOOLEAN :
       LET decodedBody == _decodeDict(responseBody)
           key    == Str(<<"p","e","e","r","s">>)
           peerss == IF decodedBody.err = "nil"
                        /\ key \in DOMAIN decodedBody.val.v
                        /\ decodedBody.val.v[key].t = "s"
                     THEN decodedBody.val.v[key].v ELSE <<>>
       IN  IF decodedBody.err # "nil" \/ Len(peerss) < 6 \/ ~dialed
           THEN Panic
           ELSE /\ peers' = peerss
                /\ address' = FirstPeerAddress(peerss)
                /\ conns' = conns + 1
                /\ pc' = "hsRead"
                /\ UNCHANGED <<ret, message, buf, sent, piece, pieceLength, i,
                               messageLength, messageId, stream, closed,
                               partial, peerLog, backlog>>
  /\ UNCHANGED <<codecVars, mainVars>>

\* conn.Read(buf): what one read call takes from the socket.
ReadCount(capacity) == Min(capacity, Len(stream))

\* The connection after the client took n bytes from it.
Taken(n) ==
  /\ stream' = SubSeq(stream, n + 1, Len(stream))
  /\ backlog' = Consume(backlog, n)
  /\ UNCHANGED <<conns, closed, partial, peerLog>>

\* buf := make([]byte, len(handshake)); bytesRead, err := conn.Read(buf);
\* message[len(message)-20:]; buf = make([]byte, 1<<15)   (lines 265-274)
ReadHandshake ==
  /\ pc = "hsRead"
  /\ \/ /\ stream = <<>> /\ closed
        /\ ReturnNil
     \/ /\ stream # <<>>
        /\ LET bytesRead == ReadCount(Len(handshake))
           IN  IF bytesRead < 20
               THEN Panic
               ELSE /\ message' = SubSeq(stream, 1, bytesRead)
                    /\ pc' = "bfRead"
                    /\ Taken(bytesRead)
                    /\ peers' = <<>>
                    /\ UNCHANGED <<ret, address, buf, sent, piece, pieceLength,
                                   i, messageLength, messageId>>
  /\ UNCHANGED <<codecVars, mainVars>>

\* The first bytes of buf after a read that returned `data`.
BufAfter(data) ==
  [k \in 1..(MessageCodeIndex + 1) |-> IF k <= Len(data) THEN data[k] ELSE buf[k]]

\* _, err = conn.Read(buf); messageCode := buf[4]; it must be 5; the
\* Interested message is written (lines 275-288).
ReadBitfield ==
  /\ pc = "bfRead"
  /\ \/ /\ stream = <<>> /\ closed
        /\ Panic
     \/ /\ stream # <<>>
        /\ LET n == ReadCount(BufSize)
               b == BufAfter(SubSeq(stream, 1, n))
           IN  IF b[MessageCodeIndex + 1] # 5
               THEN Panic
               ELSE /\ buf' = b
                    /\ sent' = Append(sent, InterestedBytes)
                    /\ pc' = "ucRead"
                    /\ Taken(n)
                    /\ UNCHANGED <<ret, peers, address, message, piece, pieceLength, i,
                                   messageLength, messageId>>
  /\ UNCHANGED <<codecVars, mainVars>>

\* _, err = conn.Read(buf); messageCode = buf[4]; it must be 1; the piece
\* buffer is made (lines 289-307).
ReadUnchoke ==
  /\ pc = "ucRead"
  /\ \/ /\ stream = <<>> /\ closed
        /\ Panic
     \/ /\ stream # <<>>
        /\ LET n == ReadCount(BufSize)
               b == BufAfter(SubSeq(stream, 1, n))
           IN  IF b[MessageCodeIndex + 1] # 1 \/ PieceLengthOf(pieceIndex) < 0
               THEN Panic
               ELSE /\ buf' = b
                    /\ pieceLength' = PieceLengthOf(pieceIndex)
                    /\ piece' = Zeros(PieceLengthOf(pieceIndex))
                    /\ i' = 0
                    /\ pc' = "loop"
                    /\ Taken(n)
                    /\ UNCHANGED <<ret, peers, address, message, sent,
                                   messageLength, messageId>>
  /\ UNCHANGED <<codecVars, pieceIndex, fileBytes, verified>>

\* Lines 368-373: the SHA-1 check and the return of the piece.
CheckAndReturn ==
  IF ChecksumOk(piece, pieceIndex)
  THEN /\ pc' = "returned"
       /\ ret' = [piece |-> piece, pieceLength |-> pieceLength]
       /\ verified' = verified \cup {pieceIndex}
       /\ CallEnds
  ELSE Panic /\ verified' = verified

\* A plausible slip: every block asked for in full, the last one too.
PieceBlockLengthFull(begin, length) == PIECE_BLOCK_MAX_SIZE

\* pieceBlockLength of the block at offset i (lines 309-312).
PieceBlockLength(begin, length) ==
  IF begin + PIECE_BLOCK_MAX_SIZE > length
  THEN length - begin ELSE PIECE_BLOCK_MAX_SIZE

\* pieceBlocksAmount (lines 303-306).
PieceBlocksAmount(length) ==
  IF length % PIECE_BLOCK_MAX_SIZE > 0
  THEN length \div PIECE_BLOCK_MAX_SIZE + 1
  ELSE length \div PIECE_BLOCK_MAX_SIZE

\* The head of the request loop and the Request it writes (lines 308-338);
\* past the last block, the SHA-1 check.
SendRequest ==
  /\ pc = "loop"
  /\ IF i < pieceLength
     THEN LET pieceBlockLength == PieceBlockLength(i, pieceLength)
          IN  \/ /\ sent' = Append(sent, RequestBytes(pieceIndex, i, pieceBlockLength))
                 /\ pc' = "rdLen"
                 /\ UNCHANGED <<ret, verified, peers, address, message, buf, piece,
                                pieceLength, i, messageLength, messageId, connVars>>
              \/ /\ closed       \* conn.Write fails on a connection the peer left
                 /\ ReturnNil
                 /\ verified' = verified
     ELSE CheckAndReturn
  /\ UNCHANGED <<codecVars, pieceIndex, fileBytes>>

\* err = binary.Read(conn, binary.BigEndian, &messageLength) (lines 340-348):
\* four bytes are read in full.  io.EOF (the connection closed, nothing left)
\* breaks the loop; any other error (closed inside the four bytes, reset) is
\* passed over with messageLength left 0.
ReadLength ==
  /\ pc = "rdLen"
  /\ \/ /\ Len(stream) >= 4
        /\ messageLength' = Uint32(SubSeq(stream, 1, 4))
        /\ pc' = "rdId"
        /\ Taken(4)
        /\ UNCHANGED <<ret, verified, peers, address, message, buf, sent, piece,
                       pieceLength, i, messageId>>
     \/ /\ stream = <<>> /\ closed
        /\ CheckAndReturn
     \/ /\ stream # <<>> /\ Len(stream) < 4 /\ closed
        /\ messageLength' = 0
        /\ pc' = "rdId"
        /\ Taken(Len(stream))
        /\ UNCHANGED <<ret, verified, peers, address, message, buf, sent, piece,
                       pieceLength, i, messageId>>
  /\ UNCHANGED <<codecVars, pieceIndex, fileBytes>>

\* The end of one iteration of the request loop: messageLength and messageId
\* are the iteration's own, i += PIECE_BLOCK_MAX_SIZE.
NextIteration ==
  /\ pc' = "loop"
  /\ i' = i + PIECE_BLOCK_MAX_SIZE
  /\ messageLength' = 0 /\ messageId' = 0

\* err = binary.Read(conn, binary.BigEndian, &messageId) (lines 349-354) and
\* the test of line 356: with messageLength 0 the iteration ends here.
ReadId ==
  /\ pc = "rdId"
  /\ \/ /\ stream # <<>>
        /\ IF messageLength > 0
           THEN /\ messageId' = stream[1]
                /\ pc' = "rdPayload"
                /\ UNCHANGED <<i, messageLength>>
           ELSE NextIteration
        /\ Taken(1)
        /\ UNCHANGED <<ret, peers, address, message, buf, sent, piece, pieceLength>>
     \/ /\ stream = <<>> /\ closed
        /\ ReturnNil
  /\ UNCHANGED <<codecVars, mainVars>>

\* buf = make([]byte, messageLength-1); io.ReadAtLeast(conn, buf, len(buf));
\* blockBegin := Uint32(buf[4:8]); copy(piece[blockBegin:], buf[8:])
\* (lines 357-366).
ReadPayload ==
  /\ pc = "rdPayload"
  /\ LET size == messageLength - 1
     IN  \/ /\ Len(stream) >= size
            /\ LET payload    == SubSeq(stream, 1, size)
                   blockBegin == Uint32(SubSeq(payload, 5, 8))
               IN  IF size < 8 \/ blockBegin > Len(piece)
                   THEN Panic
                   ELSE /\ buf' = BufAfter(payload)
                        /\ piece' = CopyAt(piece, blockBegin,
                                           SubSeq(payload, 9, size))
                        /\ NextIteration
                        /\ Taken(size)
                        /\ UNCHANGED <<ret, peers, address, message, sent, pieceLength>>
         \/ /\ Len(stream) < size /\ closed
            /\ ReturnNil
  /\ UNCHANGED <<codecVars, mainVars>>

(***************************************************************************)
(* The peer's and the network's steps                                      *)
(***************************************************************************)

PeerWritesHandshake ==
  /\ ConnOpen /\ ~closed /\ peerHandshake = <<>>
  /\ \E h \in PeerHandshakes : \E c \in Cuts(h) :
       /\ peerHandshake' = h
       /\ stream' = stream \o SubSeq(h, 1, c)
       /\ partial' = SubSeq(h, c + 1, Len(h))
       /\ backlog' = Append(backlog, [left |-> Len(h), total |-> Len(h)])
  /\ UNCHANGED <<codecVars, pc, ret, mainVars, callVars, conns, closed, peerIds,
                 framesWritten>>

PeerWritesFrame ==
  /\ ConnOpen /\ ~closed /\ peerHandshake # <<>> /\ partial = <<>>
  /\ framesWritten < MaxFrames
  /\ Len(backlog) < MaxAhead
  /\ \E f \in PeerMenu : \E c \in Cuts(f) :
       /\ framesWritten' = framesWritten + 1
       /\ peerIds' = IF Len(peerIds) < 2 THEN Append(peerIds, FrameId(f))
                     ELSE peerIds
       /\ stream' = stream \o SubSeq(f, 1, c)
       /\ partial' = SubSeq(f, c + 1, Len(f))
       /\ backlog' = Append(backlog, [left |-> Len(f), total |-> Len(f)])
  /\ UNCHANGED <<codecVars, pc, ret, mainVars, callVars, conns, closed,
                 peerHandshake>>

NetworkDelivers ==
  /\ ConnOpen /\ partial # <<>>
  /\ stream' = stream \o partial
  /\ partial' = <<>>
  /\ UNCHANGED <<codecVars, pc, ret, mainVars, callVars, conns, closed,
                 peerLog, backlog>>

\* The peer closes (or dies): what it wrote and the network still holds is lost.
PeerCloses ==
  /\ ConnOpen /\ ~closed
  /\ closed' = TRUE
  /\ partial' = <<>>
  /\ UNCHANGED <<codecVars, pc, ret, mainVars, callVars, conns, stream,
                 peerLog, backlog>>

Next ==
  \/ CallDownloadPiece \/ StorePiece \/ WriteFile
  \/ AnnounceFails \/ AnnounceReplies
  \/ ReadHandshake \/ ReadBitfield \/ ReadUnchoke
  \/ SendRequest \/ ReadLength \/ ReadId \/ ReadPayload
  \/ PeerWritesHandshake \/ PeerWritesFrame \/ NetworkDelivers \/ PeerCloses

Spec == Init /\ [][Next]_vars

(***************************************************************************)
(* The codec commands                                                      *)
(***************************************************************************)

SessionOff ==
  /\ pc = "off" /\ Fresh

\* The orders in which range may visit the keys of the info dictionary.
InfoOrders == 0..(Factorial(Cardinality(DOMAIN torrentFileInfo)) - 1)

InitCodec ==
  /\ SessionOff
  /\ encoded = NoEnc /\ decoded = NoRes
  /\ \/ /\ cpc = "toEncode"
        /\ item \in Values /\ mapOrder \in MapOrders /\ suffix \in Suffixes
        /\ bencodedValue = <<>>
     \/ /\ cpc = "toEncode"      \* encodedInfo := _encodeDict(torrentFileInfo)
        /\ item = BDict(torrentFileInfo) /\ mapOrder \in InfoOrders
        /\ suffix = <<>> /\ bencodedValue = <<>>
     \/ /\ cpc = "toDecode"
        /\ item = BInt(0) /\ mapOrder = 0 /\ suffix = <<>>
        /\ bencodedValue \in RawInputs \cup {SpamEggs}

\* encodeData(itemToEncode)
Encode ==
  /\ cpc = "toEncode"
  /\ encoded' = encodeData(item, mapOrder)
  /\ cpc' = "encoded"
  /\ UNCHANGED <<item, mapOrder, suffix, bencodedValue, decoded,
                 pc, ret, mainVars, callVars, connVars>>

\* decodeBencodeData on a buffer that holds the encoding, then the suffix.
DecodeEncoded ==
  /\ cpc = "encoded" /\ encoded.err = "nil"
  /\ decoded' = decodeBencodeData(encoded.s \o suffix)
  /\ cpc' = "decoded"
  /\ UNCHANGED <<item, mapOrder, suffix, bencodedValue, encoded,
                 pc, ret, mainVars, callVars, connVars>>

\* The decode command (lines 379-382).
DecodeCommand ==
  /\ cpc = "toDecode"
  /\ decoded' = decodeBencodeData(bencodedValue)
  /\ cpc' = "decoded"
  /\ UNCHANGED <<item, mapOrder, suffix, bencodedValue, encoded,
                 pc, ret, mainVars, callVars, connVars>>

NextCodec == Encode \/ DecodeEncoded \/ DecodeCommand

SpecCodec == InitCodec /\ [][NextCodec]_vars

(***************************************************************************)
(* Properties of the peer session                                          *)
(***************************************************************************)

\* The messages the client has written on this connection.
InterestedSent == \E k \in DOMAIN sent : sent[k][MessageCodeIndex + 1] = 2
RequestSent    == \E k \in DOMAIN sent : sent[k][MessageCodeIndex + 1] = 6

\* C1: Interested is sent only after the peer's first message, with id 5
\* (bitfield), was accepted, and a Request is sent only after the peer's
\* next message, with id 1 (unchoke), was accepted; if either message has
\* another id no Request is sent.
InterestedAndRequestInOrder ==
  /\ InterestedSent => Len(peerIds) >= 1 /\ peerIds[1] = 5
  /\ RequestSent => Len(peerIds) >= 2 /\ peerIds[1] = 5 /\ peerIds[2] = 1

\* No write of the peer is read in part.
WholeWrites(log) == \A k \in DOMAIN log : log[k].left = log[k].total

\* The number of writes of the peer (handshake, frames) read to their end.
WritesRead ==
  (IF peerHandshake = <<>> THEN 0 ELSE 1) + framesWritten - Len(backlog)

\* C2: after the handshake each message is read as one whole frame however
\* the stream is split or coalesced: when the bitfield step is over the
\* handshake and one frame have been read, no more and no less, and the id
\* checked was that frame's; when the unchoke step is over, the handshake
\* and two frames.
EachReadTakesOneFrame ==
  /\ pc = "ucRead" =>
       /\ WholeWrites(backlog) /\ WritesRead = 2
       /\ Len(peerIds) >= 1 /\ peerIds[1] = 5
  /\ (pc = "loop" /\ i = 0) =>
       /\ WholeWrites(backlog) /\ WritesRead = 3
       /\ Len(peerIds) >= 2 /\ peerIds[2] = 1

\* The handshake reply is 68 bytes and opens with 19, "BitTorrent protocol".
HandshakeValid(h) ==
  /\ Len(h) = Len(handshake)
  /\ SubSeq(h, 1, 1 + Len(pstr)) = <<19>> \o pstr

\* C3: after a handshake reply with other protocol-identifier bytes, or a
\* short one, the session fails before any peer-wire message is read or
\* sent: no bitfield read, no Interested, no Request.
BadHandshakeEndsSession ==
  (peerHandshake # <<>> /\ ~HandshakeValid(peerHandshake)) =>
     /\ sent = <<>>
     /\ pc \notin {"ucRead", "loop", "rdLen", "rdId", "rdPayload"}

\* C4: in the request loop a message with an id other than 7 makes the
\* download of the piece fail, and its payload is not copied into the piece
\* buffer.
NonPieceMessageFails ==
  [][(pc = "rdPayload" /\ messageId # 7) =>
       /\ pc' \in {"rdPayload", "returned", "panic"}
       /\ pc' = "returned" => ret'.piece = <<>>
       /\ pc' = "rdPayload" => piece' = piece]_vars

\* C5: downloadPiece never returns a non-empty piece whose SHA-1 digest
\* differs from the expected hash pieces[pieceIndex*20 : (pieceIndex+1)*20],
\* whatever the peer did.
ReturnedPieceMatchesHash ==
  (pc = "returned" /\ ret.piece # <<>>) =>
     sha1Sum(ret.piece) = pieceHashFromFile(pieceIndex)

\* downloadPiece has returned a piece.
PieceReturned ==
  /\ pc = "returned" /\ ret.piece # <<>>
  /\ Len(ret.piece) = PieceLengthOf(pieceIndex)

\* C6: the download command writes the file and reports the download done
\* only when downloadPiece returned a checked piece for every piece index.
DoneOnlyWhenAllVerified ==
  pc = "done" => verified = 0..(piecesAmount - 1)

(***************************************************************************)
(* Properties of the codec                                                 *)
(***************************************************************************)

\* C7: for a well-formed value followed by any suffix, decodeBencodeData
\* returns the exact length of the value's encoding as the consumed count.
ConsumedCountIsEncodingLength ==
  (cpc = "decoded" /\ encoded.err = "nil") =>
     /\ decoded.err = "nil"
     /\ decoded.n = Len(encoded.s)

\* C8: round trip: decodeBencodeData(encodeData(v)) returns v without error,
\* for strings, integers (negative and zero too), lists and dictionaries,
\* empty and nested ones too.
RoundTrip ==
  (cpc = "decoded" /\ encoded.err = "nil" /\ suffix = <<>>) =>
     /\ decoded.err = "nil"
     /\ decoded.val = item

\* A dictionary holding a list with a negative integer and an empty list
\* went through the round trip.
NestedRoundTripDone ==
  /\ cpc = "decoded" /\ encoded.err = "nil" /\ suffix = <<>>
  /\ item = BDict(Str(<<"a">>) :> BList(<<BInt(0 - 12)>>)
                  @@ Str(<<"b">>) :> BList(<<>>))
  /\ decoded.val = item

\* The keys of a map in strictly ascending byte order.
AscendingKeys(dict) ==
  CHOOSE keys \in [1..Cardinality(DOMAIN dict) -> DOMAIN dict] :
    \A a, b \in DOMAIN keys : a < b => StrLess(keys[a], keys[b])

\* "d", then each key once with its value in ascending key order, then "e".
CanonicalDict(dict, order) ==
  LET keys == AscendingKeys(dict)
  IN  <<100>>
      \o Concat([k \in DOMAIN keys |->
                   _encodeString(keys[k]) \o encodeData(dict[keys[k]], order).s])
      \o <<101>>

\* C9: _encodeDict emits each key once with its value in strictly ascending
\* key order at every nesting level, so the output is the same for every
\* iteration order of the map, and the info-hash (the SHA-1 of the encoded
\* info dictionary) does not depend on it.
CanonicalEncoding ==
  cpc = "encoded" =>
     /\ encoded.err = "nil"
     /\ \A o \in MapOrders : encodeData(item, o) = encoded
     /\ item.t = "d" => encoded.s = CanonicalDict(item.v, mapOrder)
     /\ \A o \in MapOrders :
          sha1Sum(encodeData(item, o).s) = sha1Sum(encoded.s)

\* A dictionary whose two keys range visited in descending order, one of its
\* values a dictionary of two keys, has been encoded.
UnorderedDictEncoded ==
  /\ cpc = "encoded" /\ item.t = "d"
  /\ Cardinality(DOMAIN item.v) = 2
  /\ \E k \in DOMAIN item.v :
       item.v[k].t = "d" /\ Cardinality(DOMAIN item.v[k].v) = 2
  /\ LET visited == RangeKeys(DOMAIN item.v, mapOrder)
     IN  StrLess(visited[2], visited[1])

\* The index of the first byte b of s, or -1.
IndexOf(s, b) == ScanFor(s, 0, b)

\* The malformed inputs: a byte-string whose length digits do not parse or
\* whose length exceeds what is left, an integer with non-digit content or
\* without its `e`, a list or dictionary without its `e`, a dictionary key
\* that is not a byte-string, an unsupported leading byte.
Malformed(s) ==
  /\ s # <<>>
  /\ \/ /\ IsDigit(s[1]) /\ IndexOf(s, 58) >= 0
        /\ LET conv == Atoi(Slice(s, 0, IndexOf(s, 58)))
           IN  ~conv.ok \/ conv.val > Len(s) - IndexOf(s, 58) - 1
     \/ /\ s[1] = 105
        /\ \/ IndexOf(s, 101) < 0
           \/ ~Atoi(Slice(s, 1, IndexOf(s, 101))).ok
     \/ s[1] \in {108, 100} /\ IndexOf(s, 101) < 0
     \/ s[1] = 100 /\ Len(s) >= 2 /\ ~IsDigit(s[2]) /\ s[2] # 101
     \/ ~IsDigit(s[1]) /\ s[1] \notin {105, 108, 100}

\* C10: on malformed input decodeBencodeData returns an error value; it
\* neither aborts nor returns a value.
MalformedInputGivesError ==
  (cpc = "decoded" /\ Malformed(bencodedValue)) => decoded.err = "error"

(***************************************************************************)
(* Properties of the tracker step, the handshake and the request loop      *)
(***************************************************************************)

\* C11: a tracker reply without a `peers` byte-string, or with one whose
\* length is not a multiple of 6 (the empty list too), makes the tracker step
\* fail: no connection is attempted.
DialOnlyOnWholePeerRecords ==
  pc = "hsRead" => (Len(peers) > 0 /\ Len(peers) % 6 = 0)

\* C12: the handshake written is 68 bytes: 19, the 19-byte protocol
\* identifier, 8 zero bytes, the 20-byte info-hash, the 20-byte peer id; its
\* info-hash is the info_hash the same call sent to the tracker.
HandshakeLayout ==
  pc = "hsRead" =>
     /\ Len(handshake) = 68
     /\ handshake[1] = 19
     /\ SubSeq(handshake, 2, 20) = pstr /\ Len(pstr) = 19
     /\ SubSeq(handshake, 21, 28) = Zeros(8)
     /\ SubSeq(handshake, 29, 48) = info_hash /\ Len(info_hash) = DigestSize
     /\ info_hash = sha1Sum(_encodeDict(torrentFileInfo, 0).s)
     /\ SubSeq(handshake, 49, 68) =
          Str(<<"0","0","1","1","2","2","3","3","4","4",
                "5","5","6","6","7","7","8","8","9","9">>)

\* The tracker was asked, the peer dialled and the handshake written.
HandshakeWritten ==
  pc = "hsRead" /\ conns = 1 /\ address = <<10, 0, 0, 1, 6881>>

\* The Requests written on this connection, in order, and their fields.
IsRequest(m) == m[MessageCodeIndex + 1] = 6
Requests == SelectSeq(sent, IsRequest)
RequestIndex(r)  == Uint32(SubSeq(r, 6, 9))
RequestBegin(r)  == Uint32(SubSeq(r, 10, 13))
RequestLength(r) == Uint32(SubSeq(r, 14, 17))

RECURSIVE SumOfLengths(_)
SumOfLengths(reqs) ==
  IF reqs = <<>> THEN 0
  ELSE RequestLength(reqs[1]) + SumOfLengths(Tail(reqs))

InRequestLoop == pc \in {"loop", "rdLen", "rdId", "rdPayload"}

\* C14: for a piece of length L > 0 the Requests have begin 0, B, 2B, ...
\* (B the block size), every block but the last has length B, the last has
\* a length in 1..B, and once the loop is over without a failure the number
\* of Requests is ceil(L / B) = pieceBlocksAmount and their lengths sum to L.
BlocksPartitionPiece ==
  InRequestLoop =>
    LET reqs  == Requests
        count == (pieceLength + PIECE_BLOCK_MAX_SIZE - 1) \div PIECE_BLOCK_MAX_SIZE
    IN  /\ pieceLength > 0
        /\ PieceBlocksAmount(pieceLength) = count
        /\ Len(reqs) <= count
        /\ \A k \in DOMAIN reqs :
             /\ RequestBegin(reqs[k]) = (k - 1) * PIECE_BLOCK_MAX_SIZE
             /\ RequestLength(reqs[k]) \in 1..PIECE_BLOCK_MAX_SIZE
             /\ k < count => RequestLength(reqs[k]) = PIECE_BLOCK_MAX_SIZE
             /\ RequestBegin(reqs[k]) + RequestLength(reqs[k]) <= pieceLength
        /\ (pc = "loop" /\ i >= pieceLength) =>
             /\ Len(reqs) = count
             /\ SumOfLengths(reqs) = pieceLength

\* The loop is over for a piece whose last block is a short one.
AllBlocksRequested ==
  /\ pc = "loop" /\ i >= pieceLength
  /\ Len(Requests) >= 2
  /\ RequestLength(Requests[Len(Requests)]) < PIECE_BLOCK_MAX_SIZE

\* The step in which the SHA-1 check of lines 368-372 runs.
ChecksumStep ==
  /\ \/ pc = "rdLen"
     \/ pc = "loop" /\ i >= pieceLength
  /\ pc' \in {"returned", "panic"}

\* C15: the Requests carry index = pieceIndex and strictly increasing begin
\* offsets, one at a time, and the SHA-1 check runs only after a response
\* was received for every block.
SynchronousExchange ==
  [][/\ \A k \in DOMAIN Requests :
          /\ RequestIndex(Requests[k]) = pieceIndex
          /\ k > 1 => RequestBegin(Requests[k - 1]) < RequestBegin(Requests[k])
     /\ ChecksumStep => i >= pieceLength]_vars

\* C16: after a frame with length prefix 0 (keep-alive) the client takes no
\* message-id byte: nothing more is read for it, and it is not counted as
\* the response to the outstanding Request.
KeepAliveTakesNoIdByte ==
  [][(pc = "rdId" /\ messageLength = 0 /\ ~closed /\ pc' # pc) =>
       /\ Len(stream') >= Len(stream)
       /\ i' = i]_vars

(***************************************************************************)
(* Properties of the download command                                      *)
(***************************************************************************)

\* The step in which the download command copies a returned piece.
StoreStep == pc = "returned" /\ pc' = "main"

\* The byte range of piece x in the output: its offset and its length.
RangeOffset(x) == x * wholePieceLength
RangeLength(x) ==
  IF x < piecesAmount - 1 THEN wholePieceLength
  ELSE fileLength - wholePieceLength * (piecesAmount - 1)
InRangeOf(x, b) == RangeOffset(x) <= b /\ b < RangeOffset(x) + RangeLength(x)

\* C17: the output buffer has length totalLength; piece i is written at
\* [i*pieceLength, i*pieceLength + len_i); the ranges are pairwise disjoint
\* and cover [0, totalLength); writing piece i changes no byte outside its
\* range.
OutputLayout ==
  [][/\ pc' = "done" => Len(fileBytes') = fileLength
     /\ StoreStep =>
          /\ Len(fileBytes) = fileLength /\ Len(fileBytes') = fileLength
          /\ RangeLength(pieceIndex) \in 1..wholePieceLength
          /\ \A b \in 0..(fileLength - 1) :
               Cardinality({x \in 0..(piecesAmount - 1) : InRangeOf(x, b)}) = 1
          /\ ret.piece # <<>> =>
               /\ ret.pieceLength = RangeLength(pieceIndex)
               /\ \A k \in 1..RangeLength(pieceIndex) :
                    fileBytes'[RangeOffset(pieceIndex) + k] = ret.piece[k]
          /\ \A b \in 0..(fileLength - 1) :
               ~InRangeOf(pieceIndex, b) => fileBytes'[b + 1] = fileBytes[b + 1]]_vars

\* The last piece, a short one, was downloaded and copied into the output.
LastPieceStored ==
  /\ pc = "main" /\ pieceIndex = piecesAmount /\ piecesAmount >= 2
  /\ (piecesAmount - 1) \in verified
  /\ RangeLength(piecesAmount - 1) < wholePieceLength
  /\ SubSeq(fileBytes, RangeOffset(piecesAmount - 1) + 1, fileLength)
       = TruePiece(piecesAmount - 1)

\* The positions downloadPiece and the download command go through.
Successors ==
  [main      |-> {"tracker", "done"},
   tracker   |-> {"hsRead", "returned", "panic"},
   hsRead    |-> {"bfRead", "returned", "panic"},
   bfRead    |-> {"ucRead", "panic"},
   ucRead    |-> {"loop", "panic"},
   loop      |-> {"rdLen", "returned", "panic"},
   rdLen     |-> {"rdId", "returned", "panic"},
   rdId      |-> {"rdPayload", "loop", "returned"},
   rdPayload |-> {"loop", "returned", "panic"},
   returned  |-> {"main", "panic"},
   done      |-> {},
   panic     |-> {}]

\* C18: pieces are fetched in ascending index order, each once; each call
\* runs a fresh session (announce, dial the first peer of the list,
\* handshake, bitfield, Interested, unchoke, request loop) and closes its
\* connection before the next call, so at most one connection is open.
SequentialSessions ==
  [][/\ conns \in {0, 1}
     /\ conns = 1 <=> ConnOpen
     /\ pc' = pc \/ pc' \in Successors[pc]
     /\ pieceIndex' = IF StoreStep THEN pieceIndex + 1 ELSE pieceIndex
     /\ (pc = "main" /\ pc' = "tracker") =>
          /\ pieceIndex < piecesAmount
          /\ conns = 0 /\ stream = <<>> /\ sent = <<>> /\ peerHandshake = <<>>
     /\ (pc = "tracker" /\ pc' = "hsRead") =>
          /\ conns' = 1
          /\ address' = FirstPeerAddress(peers')
     /\ pc' = "done" => pieceIndex' = piecesAmount]_vars

\* The second session starts after the first returned its piece.
SecondSessionStarts ==
  pc = "tracker" /\ pieceIndex = 1 /\ 0 \in verified /\ conns = 0

\* C19: for every message read in answer to a Request the block is stored
\* at the message's begin, only bytes at offsets in [begin, pieceLength) are
\* modified, and no out-of-range access aborts the process (a payload
\* shorter than 8 bytes and a begin past the buffer included).
BlockStoredWithoutAbort ==
  [][(pc = "rdPayload" /\ messageId = 7) =>
       /\ pc' # "panic"
       /\ pc' = "loop" =>
            /\ Len(piece') = Len(piece)
            /\ \A k \in DOMAIN piece :
                 k <= Uint32(SubSeq(stream, 5, 8)) => piece'[k] = piece[k]]_vars

(***************************************************************************)
(* Further properties of the codec                                         *)
(***************************************************************************)

\* C13 (as the code has it): decoding "l4:spam4:eggse" yields the list
\* ["spam", "eggs"] and reports 14 bytes consumed, the length of the input.
SpamEggsConsumesFourteen ==
  (cpc = "decoded" /\ bencodedValue = SpamEggs) =>
     /\ decoded.err = "nil"
     /\ decoded.val = BList(<<BStr(Str(<<"s","p","a","m">>)),
                              BStr(Str(<<"e","g","g","s">>))>>)
     /\ decoded.n = 14 /\ decoded.n = Len(SpamEggs)

\* C13: decoding "l4:spam4:eggse" yields the list ["spam", "eggs"] and
\* reports 15 bytes consumed.
SpamEggsConsumesFifteen ==
  (cpc = "decoded" /\ bencodedValue = SpamEggs) =>
     /\ decoded.err = "nil"
     /\ decoded.val = BList(<<BStr(Str(<<"s","p","a","m">>)),
                              BStr(Str(<<"e","g","g","s">>))>>)
     /\ decoded.n = 15

\* "l4:spam4:eggse" has been decoded.
SpamEggsDecoded ==
  cpc = "decoded" /\ bencodedValue = SpamEggs /\ decoded.val.t = "l"

\* C20: decodeBencodeData terminates on every finite input: each iteration
\* of the element loops advances the cursor, "lle" and "lde" included.
DecoderTerminates ==
  cpc = "decoded" => decoded.err # "loop"

=============================================================================
